---- MODULE Spec2Model ----
(***************************************************************************)
(* A model of streamlit_app.py (Hydro-Quebec usage & billing dashboard).   *)
(*                                                                         *)
(* The module holds one state machine per component of the script:         *)
(*   SpecMonthly : parse_monthly_rows_from_results                         *)
(*   SpecBilling : deep_find_items / normalize_billing                     *)
(*   SpecCall    : call_hydroqc_once / run_coro                            *)
(*   SpecSession : get_hydroqc_session                                     *)
(*   SpecNormalize : normalize_usage_df                                    *)
(*   SpecRun     : the usage RUN block                                     *)
(*   SpecBillingRun : the billing RUN block                                *)
(* Each specification moves the variables of its own component and leaves  *)
(* the others at their initial value.                                      *)
(***************************************************************************)
EXTENDS Integers, Sequences, FiniteSets, TLC

VARIABLES
    \* parse_monthly_rows_from_results
    df_raw, m_pc, m_i, current_rows, compare_rows, m_log, m_result,
    \* deep_find_items / normalize_billing
    raws, bl_pc, bl_i, rows, bl_result,
    \* the configured identifiers (module level)
    cust_id, acct_id, ctrt_id,
    \* whether an event loop already runs in the calling thread
    loop_running,
    \* call_hydroqc_once / run_coro
    accessor, c_pc, kwargs, invocations, coro,
    result_container, error_container, c_outcome,
    \* get_hydroqc_session
    lib, s_pc, session, e_webuser, e_client, s_trace, s_outcome,
    \* normalize_usage_df
    n_df, n_granularity, pandas_strict, n_pc, n_once, n_twice,
    \* the usage RUN block and its caches (u_granularity is the widget of line 173)
    u_granularity, start_date, end_date, r_pc, client_cached, data_cache,
    r_calls, r_msgs,
    \* the billing RUN block
    hq_session, b_pc, b_i, attempts, results, customers_prop, b_errors, b_raws, b_shown

varsMonthly == <<df_raw, m_pc, m_i, current_rows, compare_rows, m_log, m_result>>

varsBilling == <<raws, bl_pc, bl_i, rows, bl_result>>

varsConfig == <<cust_id, acct_id, ctrt_id, loop_running>>
varsCall == <<accessor, c_pc, kwargs, invocations, coro,
              result_container, error_container, c_outcome>>

varsSession == <<lib, s_pc, session, e_webuser, e_client, s_trace, s_outcome>>

varsNormalize == <<n_df, n_granularity, pandas_strict, n_pc, n_once, n_twice>>

varsRun == <<u_granularity, start_date, end_date, r_pc, client_cached, data_cache,
             r_calls, r_msgs>>

varsBillingRun == <<hq_session, b_pc, b_i, attempts, results, customers_prop,
                    b_errors, b_raws, b_shown>>

vars == <<varsMonthly, varsBilling, varsConfig, varsCall, varsSession, varsNormalize,
          varsRun, varsBillingRun>>

\* What each component leaves alone.
notMonthly == <<varsBilling, varsConfig, varsCall, varsSession, varsNormalize, varsRun, varsBillingRun>>
notBilling == <<varsMonthly, varsConfig, varsCall, varsSession, varsNormalize, varsRun, varsBillingRun>>
notCall == <<varsMonthly, varsBilling, varsConfig, varsSession, varsNormalize, varsRun, varsBillingRun>>
notSession == <<varsMonthly, varsBilling, varsConfig, varsCall, varsNormalize, varsRun, varsBillingRun>>
notNormalize == <<varsMonthly, varsBilling, varsConfig, varsCall, varsSession, varsRun, varsBillingRun>>
notRun == <<varsMonthly, varsBilling, varsConfig, varsCall, varsSession, varsNormalize, varsBillingRun>>
notBillingRun == <<varsMonthly, varsBilling, varsConfig, varsCall, varsSession, varsNormalize,
                   varsRun>>

(***************************************************************************)
(* Bounds of the model.                                                    *)
(***************************************************************************)
MaxRows == 2
MaxRaws == 2
MaxCols == 2
MaxDay == 1

(***************************************************************************)
(* Values.  A JSON / pandas cell value is a record of one shape, so that   *)
(* any two values can be compared:                                         *)
(*   null            None / NaN                                            *)
(*   num  a          the number a                                          *)
(*   str  a          an opaque text (a = 0 is the empty text "")           *)
(*   numstr a        the decimal text of the number a, e.g. "10"           *)
(*   date a b c      the text "YYYY-MM-DD"                                 *)
(*   dt   a b c d    the text "YYYY-MM-DD HH:00"                           *)
(*   ym   a b        the text "YYYY-MM"                                    *)
(*   natstr          the text "NaT"                                        *)
(*   ts   a b c d    a Timestamp value (year, month, day, hour)            *)
(*   nat             the NaT value                                         *)
(*   container       a nested dict or list (unhashable)                    *)
(***************************************************************************)
Val(k, a, b, c, d) == [kind |-> k, a |-> a, b |-> b, c |-> c, d |-> d]
NullV == Val("null", 0, 0, 0, 0)
Num(n) == Val("num", n, 0, 0, 0)
Str(n) == Val("str", n, 0, 0, 0)
NumStr(n) == Val("numstr", n, 0, 0, 0)
DateStr(y, m, d) == Val("date", y, m, d, 0)
DtStr(y, m, d, h) == Val("dt", y, m, d, h)
YmStr(y, m) == Val("ym", y, m, 0, 0)
NatStr == Val("natstr", 0, 0, 0, 0)
Ts(y, m, d, h) == Val("ts", y, m, d, h)
NaT == Val("nat", 0, 0, 0, 0)
Container == Val("container", 0, 0, 0, 0)

\* Python truthiness of a value (None, 0 and "" are falsy).
Truthy(v) ==
    CASE v.kind = "null" -> FALSE
      [] v.kind = "num" -> v.a # 0
      [] v.kind = "str" -> v.a # 0
      [] OTHER -> TRUE

IsNone(v) == v.kind = "null"

\* pd.to_datetime of one scalar: [ok, ts].  ok = FALSE is a raised error.
\* A small integer is read as nanoseconds since the epoch.
ToDatetimeScalar(v) ==
    CASE v.kind = "date" -> [ok |-> TRUE, ts |-> Ts(v.a, v.b, v.c, 0)]
      [] v.kind = "dt" -> [ok |-> TRUE, ts |-> Ts(v.a, v.b, v.c, v.d)]
      [] v.kind = "ym" -> [ok |-> TRUE, ts |-> Ts(v.a, v.b, 1, 0)]
      [] v.kind = "ts" -> [ok |-> TRUE, ts |-> v]
      [] v.kind = "num" -> [ok |-> TRUE, ts |-> Ts(1970, 1, 1, 0)]
      [] v.kind \in {"null", "nat", "natstr"} -> [ok |-> TRUE, ts |-> NaT]
      [] v.kind = "str" /\ v.a = 0 -> [ok |-> TRUE, ts |-> NaT]
      [] OTHER -> [ok |-> FALSE, ts |-> NaT]

\* Timestamp.to_period("M").strftime("%Y-%m") / .astype(str)
PeriodMonthText(t) == IF t.kind = "ts" THEN YmStr(t.a, t.b) ELSE NatStr

\* "YYYY-MM" texts compare as (year, month) pairs.
MonthLeq(x, y) ==
    \/ x.kind # "ym"
    \/ y.kind = "ym" /\ (x.a < y.a \/ (x.a = y.a /\ x.b <= y.b))

(***************************************************************************)
(* parse_monthly_rows_from_results                                         *)
(***************************************************************************)
\* A sub-object of the envelope.  kind "absent": the key is missing or its
\* value is falsy (payload.get(..) or {}); "nondict": a truthy value that is
\* no mapping (a list, a text), whose .get raises; "dict": a mapping, a
\* missing field reading as None.
Sub(k, start, fin, total, avg, temp) ==
    [kind |-> k, dateDebutMois |-> start, dateFinMois |-> fin,
     consoTotalMois |-> total, moyenneKwhJourMois |-> avg,
     tempMoyenneMois |-> temp]
SubAbsent == Sub("absent", NullV, NullV, NullV, NullV, NullV)
SubNonDict == Sub("nondict", NullV, NullV, NullV, NullV, NullV)
SubFull == Sub("dict", DateStr(2024, 1, 1), DateStr(2024, 1, 31), Num(450), Num(14), Num(3))
SubPrev == Sub("dict", DateStr(2023, 1, 1), DateStr(2023, 1, 31), Num(500), NullV, NullV)
SubZero == Sub("dict", DateStr(2024, 2, 1), NullV, Num(0), NullV, NullV)
SubNoTotal == Sub("dict", DateStr(2024, 2, 1), NullV, NullV, NullV, NullV)
SubNoStart == Sub("dict", NullV, DateStr(2024, 3, 31), Num(300), NullV, NullV)
SubEmptyStart == Sub("dict", Str(0), NullV, Num(5), NullV, NullV)
SubBadStart == Sub("dict", Str(1), NullV, Num(7), NullV, NullV)

SubObjects == {SubAbsent, SubNonDict, SubFull, SubPrev, SubZero, SubNoTotal,
               SubNoStart, SubEmptyStart, SubBadStart}
CoreSubObjects == {SubAbsent, SubFull}

\* The 'results' cell of one row.  enc "dict": a mapping; "json": a text that
\* json.loads decodes to that mapping; "badjson": a text json.loads rejects;
\* "jsonlist": a text that decodes to a list; "other": neither text nor mapping.
Payload(enc, cur, cmp) == [enc |-> enc, courant |-> cur, compare |-> cmp]
Payloads ==
    {Payload("dict", c, d) : c \in CoreSubObjects, d \in SubObjects}
    \cup {Payload("dict", c, d) : c \in SubObjects, d \in CoreSubObjects}
    \cup {Payload("json", SubFull, SubPrev), Payload("json", SubNoTotal, SubAbsent)}
    \cup {Payload(e, SubAbsent, SubAbsent) : e \in {"badjson", "jsonlist", "other"}}

RECURSIVE SeqsUpTo(_, _)
SeqsUpTo(S, n) ==
    IF n = 0 THEN {<<>>}
    ELSE LET shorter == SeqsUpTo(S, n - 1)
         IN shorter \cup {Append(s, x) : s \in {t \in shorter : Len(t) = n - 1}, x \in S}

\* df_raw: None, a table without the 'results' column, or a table of rows
\* (no row at all: df_raw.empty).
MonthlyInputs ==
    {[shape |-> "none", rows |-> <<>>], [shape |-> "nocolumn", rows |-> <<>>]}
    \cup {[shape |-> "table", rows |-> r] : r \in SeqsUpTo(Payloads, MaxRows)}

MonthRecord(sub, label) ==
    [month |-> label, kwh |-> sub.consoTotalMois,
     start_date |-> sub.dateDebutMois, end_date |-> sub.dateFinMois,
     avg_kwh_per_day |-> sub.moyenneKwhJourMois, avg_temp |-> sub.tempMoyenneMois]

\* The test of lines 54 and 70 written with a truthiness test on the total.
EmitConditionTruthyTotal(start, total) == Truthy(start) /\ Truthy(total)

\* The test of lines 54 and 70.
EmitCondition(start, total) == Truthy(start) /\ ~IsNone(total)

\* Lines 49-63 (courant) and 65-79 (compare) for one sub-object:
\* [raised, rows], rows being the list lst after the step.
ExtractSub(sub, lst) ==
    IF sub.kind = "nondict" THEN [raised |-> TRUE, rows |-> lst]
    ELSE IF ~EmitCondition(sub.dateDebutMois, sub.consoTotalMois)
         THEN [raised |-> FALSE, rows |-> lst]
    ELSE LET t == ToDatetimeScalar(sub.dateDebutMois)
         IN IF ~t.ok THEN [raised |-> TRUE, rows |-> lst]
            ELSE [raised |-> FALSE,
                  rows |-> Append(lst, MonthRecord(sub, PeriodMonthText(t.ts)))]

\* One iteration of the loop of lines 38-81 on payload p:
\* the two lists after it, and whether the row raised (and was caught).
ProcessRow(p, cur, cmp) ==
    IF p.enc = "other" THEN [cur |-> cur, cmp |-> cmp, raised |-> FALSE]
    ELSE IF p.enc \in {"badjson", "jsonlist"}
         THEN [cur |-> cur, cmp |-> cmp, raised |-> TRUE]
    ELSE LET c == ExtractSub(p.courant, cur)
         IN IF c.raised THEN [cur |-> cur, cmp |-> cmp, raised |-> TRUE]
            ELSE LET d == ExtractSub(p.compare, cmp)
                 IN [cur |-> c.rows, cmp |-> d.rows, raised |-> d.raised]

\* Stable insertion of r into a list sorted by month.
RECURSIVE InsertByMonth(_, _)
InsertByMonth(r, s) ==
    IF s = <<>> THEN <<r>>
    ELSE IF MonthLeq(s[Len(s)].month, r.month) THEN Append(s, r)
    ELSE Append(InsertByMonth(r, SubSeq(s, 1, Len(s) - 1)), s[Len(s)])

RECURSIVE SortByMonth(_)
SortByMonth(s) ==
    IF s = <<>> THEN <<>>
    ELSE InsertByMonth(s[Len(s)], SortByMonth(SubSeq(s, 1, Len(s) - 1)))

\* pd.DataFrame(rows).sort_values("month"): a frame built from no row has no
\* column, and sorting it by "month" raises KeyError.
SortValuesMonth(lst) ==
    IF lst = <<>> THEN [ok |-> FALSE, rows |-> <<>>]
    ELSE [ok |-> TRUE, rows |-> SortByMonth(lst)]

NoResult == [status |-> "none", current |-> <<>>, compare |-> <<>>]

InitMonthly ==
    /\ df_raw \in MonthlyInputs
    /\ m_pc = "call"
    /\ m_i = 0
    /\ current_rows = <<>>
    /\ compare_rows = <<>>
    /\ m_log = <<>>
    /\ m_result = NoResult

IdleMonthly ==
    /\ df_raw = [shape |-> "none", rows |-> <<>>]
    /\ m_pc = "idle"
    /\ m_i = 0
    /\ current_rows = <<>>
    /\ compare_rows = <<>>
    /\ m_log = <<>>
    /\ m_result = NoResult

\* Lines 32-36: the guard on the input.
ParseEnter ==
    /\ m_pc = "call"
    /\ IF df_raw.shape # "table" \/ df_raw.rows = <<>>
       THEN /\ m_pc' = "done"
            /\ m_result' = [status |-> "returned", current |-> <<>>, compare |-> <<>>]
            /\ m_i' = m_i
       ELSE /\ m_pc' = "loop"
            /\ m_i' = 1
            /\ m_result' = m_result
    /\ UNCHANGED <<notMonthly, df_raw, current_rows, compare_rows, m_log>>

\* Lines 38-81: one row.
ParseRow ==
    /\ m_pc = "loop"
    /\ m_i <= Len(df_raw.rows)
    /\ LET r == ProcessRow(df_raw.rows[m_i], current_rows, compare_rows)
       IN /\ current_rows' = r.cur
          /\ compare_rows' = r.cmp
          /\ m_log' = Append(m_log, [raised |-> r.raised,
                                     ncur |-> Len(r.cur) - Len(current_rows),
                                     ncmp |-> Len(r.cmp) - Len(compare_rows)])
    /\ m_i' = m_i + 1
    /\ UNCHANGED <<notMonthly, df_raw, m_pc, m_result>>

\* Lines 83-85: both frames are built and sorted, then returned.
ParseReturn ==
    /\ m_pc = "loop"
    /\ m_i > Len(df_raw.rows)
    /\ LET a == SortValuesMonth(current_rows)
           b == SortValuesMonth(compare_rows)
       IN m_result' = IF a.ok /\ b.ok
                      THEN [status |-> "returned", current |-> a.rows, compare |-> b.rows]
                      ELSE [status |-> "KeyError", current |-> <<>>, compare |-> <<>>]
    /\ m_pc' = "done"
    /\ UNCHANGED <<notMonthly, df_raw, m_i, current_rows, compare_rows, m_log>>

(***************************************************************************)
(* Texts whose characters matter (dictionary keys, column names) are       *)
(* sequences of one-character strings.                                     *)
(***************************************************************************)
UpperLetters == <<"A", "B", "C", "D", "E", "F", "G", "H", "I", "J", "K", "L", "M",
                  "N", "O", "P", "Q", "R", "S", "T", "U", "V", "W", "X", "Y", "Z">>
LowerLetters == <<"a", "b", "c", "d", "e", "f", "g", "h", "i", "j", "k", "l", "m",
                  "n", "o", "p", "q", "r", "s", "t", "u", "v", "w", "x", "y", "z">>

\* str.lower() on one character, and on a text.
LowerChar(c) ==
    IF \E i \in 1..26 : UpperLetters[i] = c
    THEN LowerLetters[CHOOSE i \in 1..26 : UpperLetters[i] = c]
    ELSE c
LowerText(s) == [i \in 1..Len(s) |-> LowerChar(s[i])]

\* k.replace(old, "") for a one-character old.
RemoveChar(s, old) == SelectSeq(s, LAMBDA c : c # old)

(***************************************************************************)
(* deep_find_items                                                         *)
(***************************************************************************)
amount_keys ==
    {<<"a", "m", "o", "u", "n", "t">>,
     <<"b", "a", "l", "a", "n", "c", "e">>,
     <<"s", "o", "l", "d", "e">>,
     <<"m", "o", "n", "t", "a", "n", "t">>,
     <<"m", "o", "n", "t", "a", "n", "t", "f", "a", "c", "t", "u", "r", "e">>,
     <<"m", "o", "n", "t", "a", "n", "t", "s", "o", "l", "d", "e">>,
     <<"p", "r", "o", "c", "h", "a", "i", "n", "m", "o", "n", "t", "a", "n", "t">>,
     <<"t", "o", "t", "a", "l">>,
     <<"t", "o", "t", "a", "l", "f", "a", "c", "t", "u", "r", "e">>}

due_keys ==
    {<<"d", "u", "e", "d", "a", "t", "e">>,
     <<"d", "a", "t", "e", "e", "c", "h", "e", "a", "n", "c", "e">>,
     <<"e", "c", "h", "e", "a", "n", "c", "e">>,
     <<"p", "r", "o", "c", "h", "a", "i", "n", "e", "e", "c", "h", "e", "a", "n", "c", "e">>,
     <<"d", "a", "t", "e", "_", "d", "u", "e">>,
     <<"d", "a", "t", "e", "_", "l", "i", "m", "i", "t", "e">>}

id_keys ==
    <<<<"c", "o", "n", "t", "r", "a", "c", "t">>,
      <<"n", "u", "m", "e", "r", "o", "C", "o", "n", "t", "r", "a", "t">>,
      <<"c", "o", "n", "t", "r", "a", "c", "t", "I", "d">>,
      <<"a", "c", "c", "o", "u", "n", "t">>,
      <<"c", "o", "m", "p", "t", "e">>,
      <<"a", "c", "c", "o", "u", "n", "t", "I", "d">>,
      <<"c", "u", "s", "t", "o", "m", "e", "r">>,
      <<"c", "l", "i", "e", "n", "t">>,
      <<"c", "u", "s", "t", "o", "m", "e", "r", "I", "d">>>>

\* Line 447.
normkey(k) == LowerText(RemoveChar(RemoveChar(k, "_"), "-"))

\* A node of the decoded graph: a leaf (scalar), a list or a mapping.  The
\* items of a mapping carry its keys in insertion order; those of a list
\* carry the empty key.
Leaf(v) == [t |-> "leaf", v |-> v, items |-> <<>>]
Item(k, n) == [k |-> k, n |-> n]
MapNode(items) == [t |-> "map", v |-> NullV, items |-> items]
ListNode(nodes) == [t |-> "list", v |-> NullV,
                    items |-> [i \in 1..Len(nodes) |-> Item(<<>>, nodes[i])]]

\* The value a record carries for a child: the scalar, or the nested
\* container itself.
ValueOf(n) == IF n.t = "leaf" THEN n.v ELSE Container

HasKey(x, k) == \E i \in 1..Len(x.items) : x.items[i].k = k
\* x.get(k) for a key k of x.
Get(x, k) == ValueOf(x.items[CHOOSE i \in 1..Len(x.items) : x.items[i].k = k].n)

\* Line 451, {normkey(k): k for k in x.keys()}: the normalized keys in the
\* order of their first occurrence, each with the last original key that
\* normalizes to it.
LowerDict(x) ==
    LET n == Len(x.items)
        nk(i) == normkey(x.items[i].k)
        firsts == SelectSeq([i \in 1..n |-> i],
                            LAMBDA i : \A j \in 1..(i - 1) : nk(j) # nk(i))
        lastOf(i) == CHOOSE j \in i..n :
                        nk(j) = nk(i) /\ \A l \in (j + 1)..n : nk(l) # nk(i)
    IN [q \in 1..Len(firsts) |->
            [norm |-> nk(firsts[q]), key |-> x.items[lastOf(firsts[q])].k]]

\* Lines 452-453, next((lower[k] for k in lower if k in keys), None):
\* <<>> stands for None.
FirstMatch(lower, keys) ==
    IF \E q \in 1..Len(lower) : lower[q].norm \in keys
    THEN lower[CHOOSE q \in 1..Len(lower) :
                  /\ lower[q].norm \in keys
                  /\ \A r \in 1..(q - 1) : lower[r].norm \notin keys].key
    ELSE <<>>

\* Lines 460-466: the identifier keys found verbatim in the node.
Identifiers(x) ==
    LET present == SelectSeq(id_keys, LAMBDA k : HasKey(x, k))
    IN [q \in 1..Len(present) |-> [k |-> present[q], v |-> Get(x, present[q])]]

\* Line 454: a key (a non-empty text) of either family was found.
MatchOnKeys(x, amt_k, due_k) == amt_k # <<>> \/ due_k # <<>>

\* Lines 451-467 for one mapping: whether it matched, and its record.
NodeRecord(x) ==
    LET lower == LowerDict(x)
        amt_k == FirstMatch(lower, amount_keys)
        due_k == FirstMatch(lower, due_keys)
    IN [match |-> MatchOnKeys(x, amt_k, due_k),
        rec |-> [amount |-> IF amt_k # <<>> THEN Get(x, amt_k) ELSE NullV,
                 due_date |-> IF due_k # <<>> THEN Get(x, due_k) ELSE NullV,
                 ids |-> Identifiers(x)]]

RECURSIVE ConcatAll(_)
ConcatAll(ss) == IF ss = <<>> THEN <<>> ELSE Head(ss) \o ConcatAll(Tail(ss))

\* Lines 449-470: the records found in x, in traversal order.
RECURSIVE walk(_)
walk(x) ==
    LET below == ConcatAll([i \in 1..Len(x.items) |-> walk(x.items[i].n)])
    IN IF x.t = "map"
       THEN (IF NodeRecord(x).match THEN <<NodeRecord(x).rec>> ELSE <<>>) \o below
       ELSE IF x.t = "list" THEN below
       ELSE <<>>

deep_find_items(obj) == walk(obj)

\* Every mapping node visited by walk(x).
RECURSIVE MapNodes(_)
MapNodes(x) ==
    (IF x.t = "map" THEN {x} ELSE {})
    \cup UNION {MapNodes(x.items[i].n) : i \in 1..Len(x.items)}

(***************************************************************************)
(* normalize_billing                                                       *)
(***************************************************************************)
\* One row of pd.DataFrame(rows): the columns amount and due_date, and one
\* cell per identifier key (NaN where the record lacks the key; a column no
\* record has is absent from the frame and equal on all rows either way).
FrameRow(rec) ==
    [amount |-> rec.amount, due_date |-> rec.due_date,
     ids |-> [q \in 1..Len(id_keys) |->
                IF \E j \in 1..Len(rec.ids) : rec.ids[j].k = id_keys[q]
                THEN rec.ids[CHOOSE j \in 1..Len(rec.ids) : rec.ids[j].k = id_keys[q]].v
                ELSE NullV]]

Unhashable(r) ==
    \/ r.amount.kind = "container"
    \/ r.due_date.kind = "container"
    \/ \E q \in 1..Len(r.ids) : r.ids[q].kind = "container"

\* DataFrame.drop_duplicates(): the first occurrence of each row is kept.
drop_duplicates(frame) ==
    SelectSeq([i \in 1..Len(frame) |-> [i |-> i, r |-> frame[i]]],
              LAMBDA e : \A j \in 1..(e.i - 1) : frame[j] # e.r)

\* pd.to_numeric(.., errors="coerce") on one cell.
to_numeric(v) ==
    CASE v.kind = "num" -> v
      [] v.kind = "numstr" -> Num(v.a)
      [] OTHER -> NullV

\* pd.to_datetime(.., errors="coerce") on one cell.
to_datetime_coerce(v) ==
    IF ToDatetimeScalar(v).ok THEN ToDatetimeScalar(v).ts ELSE NaT

\* Order of due dates, NaT last.
DueLeq(x, y) ==
    \/ y.kind # "ts"
    \/ /\ x.kind = "ts"
       /\ \/ x.a < y.a
          \/ x.a = y.a /\ x.b < y.b
          \/ x.a = y.a /\ x.b = y.b /\ x.c < y.c
          \/ x.a = y.a /\ x.b = y.b /\ x.c = y.c /\ x.d <= y.d

RECURSIVE InsertByDue(_, _)
InsertByDue(r, s) ==
    IF s = <<>> THEN <<r>>
    ELSE IF DueLeq(s[Len(s)].due_date, r.due_date) THEN Append(s, r)
    ELSE Append(InsertByDue(r, SubSeq(s, 1, Len(s) - 1)), s[Len(s)])

\* df.sort_values("due_date", na_position="last")
RECURSIVE SortByDue(_)
SortByDue(s) ==
    IF s = <<>> THEN <<>>
    ELSE InsertByDue(s[Len(s)], SortByDue(SubSeq(s, 1, Len(s) - 1)))

\* Lines 491-498 on the rows of the frame.
Coerce(frame) ==
    SortByDue([i \in 1..Len(frame) |->
                 [frame[i] EXCEPT !.amount = to_numeric(@),
                                  !.due_date = to_datetime_coerce(@)]])

\* Lines 488-499: the frame is built, its duplicates are dropped (which
\* raises TypeError on a cell that holds a dict or a list), then the columns
\* are coerced and the rows sorted.
Finish(found) ==
    IF found = <<>> THEN [status |-> "returned", table |-> <<>>]
    ELSE LET frame == [i \in 1..Len(found) |-> FrameRow(found[i])]
         IN IF \E i \in 1..Len(frame) : Unhashable(frame[i])
            THEN [status |-> "TypeError", table |-> <<>>]
            ELSE LET d == drop_duplicates(frame)
                 IN [status |-> "returned",
                     table |-> Coerce([i \in 1..Len(d) |-> d[i].r])]

\* One element of raws.  kind "none": None; "node": a dict or a list;
\* "json": a text json.loads decodes to the node; "badjson": a text it
\* rejects; "scalar": any other object (ignored).
Raw(kind, node) == [kind |-> kind, node |-> node]

\* Lines 477-487 for one raw: the records it adds.
RawRecords(raw) ==
    IF raw.kind \in {"node", "json"} THEN deep_find_items(raw.node) ELSE <<>>

AmtItems ==
    {<<Item(k, Leaf(v))>> : k \in {<<"a", "m", "o", "u", "n", "t">>, <<"S", "o", "l", "d", "e">>},
                            v \in {Num(10), NumStr(10), NullV, Str(1)}}
DueItems ==
    {<<Item(k, Leaf(v))>> : k \in {<<"d", "a", "t", "e", "E", "c", "h", "e", "a", "n", "c", "e">>, <<"d", "a", "t", "e", "_", "d", "u", "e">>, <<"d", "u", "e", "_", "d", "a", "t", "e">>},
                            v \in {DateStr(2024, 5, 1), DateStr(2024, 1, 1), NullV}}
FlatMaps == {MapNode(a \o d) : a \in AmtItems \cup {<<>>}, d \in DueItems \cup {<<>>}}

Contract1 == MapNode(<<Item(<<"m", "o", "n", "t", "a", "n", "t">>, Leaf(Num(10))),
                       Item(<<"d", "a", "t", "e", "E", "c", "h", "e", "a", "n", "c", "e">>, Leaf(DateStr(2024, 1, 1)))>>)
Contract2 == MapNode(<<Item(<<"m", "o", "n", "t", "a", "n", "t">>, Leaf(Num(20))),
                       Item(<<"d", "a", "t", "e", "E", "c", "h", "e", "a", "n", "c", "e">>, Leaf(DateStr(2024, 2, 1)))>>)
SpecialNodes ==
    {MapNode(<<Item(<<"d", "u", "e", "_", "d", "a", "t", "e">>, Leaf(DateStr(2024, 5, 1))),
               Item(<<"d", "u", "e", "D", "a", "t", "e">>, Leaf(DateStr(2024, 1, 1)))>>),
     MapNode(<<Item(<<"d", "a", "t", "e", "_", "l", "i", "m", "i", "t", "e">>, Leaf(DateStr(2024, 5, 1))),
               Item(<<"m", "o", "n", "t", "a", "n", "t", "-", "f", "a", "c", "t", "u", "r", "e">>, Leaf(Num(10)))>>),
     MapNode(<<Item(<<"n", "a", "m", "e">>, Leaf(Str(2)))>>),
     MapNode(<<Item(<<"t", "o", "t", "a", "l">>, MapNode(<<Item(<<"a", "m", "o", "u", "n", "t">>, Leaf(Num(5)))>>))>>),
     MapNode(<<Item(<<"s", "o", "l", "d", "e">>, Leaf(Num(120))),
               Item(<<"d", "a", "t", "e", "E", "c", "h", "e", "a", "n", "c", "e">>, Leaf(DateStr(2024, 3, 15))),
               Item(<<"c", "o", "n", "t", "r", "a", "c", "t">>, Leaf(Num(7)))>>),
     MapNode(<<Item(<<"c", "o", "n", "t", "r", "a", "c", "t", "s">>, ListNode(<<Contract1, Contract2>>))>>),
     MapNode(<<Item(<<"c", "o", "n", "t", "r", "a", "c", "t", "s">>, ListNode(<<Contract1, Contract1>>))>>),
     ListNode(<<Contract2, Leaf(Num(3))>>),
     Leaf(Num(3))}

RawPayloads ==
    {Raw(k, Leaf(NullV)) : k \in {"none", "badjson", "scalar"}}
    \cup {Raw("node", x) : x \in (FlatMaps \cup SpecialNodes) \ {Leaf(Num(3))}}
    \cup {Raw("json", x) : x \in {Contract1, Leaf(Num(3))}}

BillingInputs == SeqsUpTo(RawPayloads, MaxRaws)

NoTable == [status |-> "none", table |-> <<>>]

InitBilling ==
    /\ raws \in BillingInputs
    /\ bl_pc = "loop"
    /\ bl_i = 1
    /\ rows = <<>>
    /\ bl_result = NoTable

IdleBilling ==
    /\ raws = <<>>
    /\ bl_pc = "idle"
    /\ bl_i = 1
    /\ rows = <<>>
    /\ bl_result = NoTable

\* Lines 477-487: one raw payload.
BillingExtend ==
    /\ bl_pc = "loop"
    /\ bl_i <= Len(raws)
    /\ rows' = rows \o RawRecords(raws[bl_i])
    /\ bl_i' = bl_i + 1
    /\ UNCHANGED <<notBilling, raws, bl_pc, bl_result>>

\* Lines 488-499.
BillingReturn ==
    /\ bl_pc = "loop"
    /\ bl_i > Len(raws)
    /\ bl_result' = Finish(rows)
    /\ bl_pc' = "done"
    /\ UNCHANGED <<notBilling, raws, bl_i, rows>>

(***************************************************************************)
(* The configured identifiers HQ_CUSTOMER_ID, HQ_ACCOUNT_ID and            *)
(* HQ_CONTRACT_ID: a digit text, or the empty text when the secret is not  *)
(* set (None and "" are both falsy).                                       *)
(***************************************************************************)
InitConfig ==
    /\ cust_id \in {"", "0123456789"}
    /\ acct_id \in {"", "299000000"}
    /\ ctrt_id \in {"", "0345678901"}
    /\ loop_running \in BOOLEAN

IdleConfig ==
    /\ cust_id = ""
    /\ acct_id = ""
    /\ ctrt_id = ""
    /\ loop_running = FALSE

(***************************************************************************)
(* run_coro and call_hydroqc_once                                          *)
(***************************************************************************)
\* An exception object: its type and where it was raised.
Exc(type, origin) == [type |-> type, origin |-> origin]
NoExc == Exc("none", "none")

\* The types that are subclasses of Exception / of RuntimeError.
\* asyncio.CancelledError derives from BaseException only.
IsException(e) == e.type \in {"ValueError", "RuntimeError", "TypeError", "AttributeError"}
IsRuntimeError(e) == e.type = "RuntimeError"

\* The failures an accessor (or its coroutine) may end with.
AccessorFailures ==
    {Exc(t, "accessor") : t \in {"ValueError", "RuntimeError", "CancelledError"}}

\* A declared parameter of the accessor.
Param(name, required) == [name |-> name, required |-> required]

Signatures ==
    {<<>>,
     <<Param(<<"c", "u", "s", "t", "o", "m", "e", "r", "_", "i", "d">>, TRUE)>>,
     <<Param(<<"C", "u", "s", "t", "o", "m", "e", "r">>, FALSE)>>,
     <<Param(<<"v", "e", "r", "i", "f", "y", "_", "s", "s", "l">>, FALSE)>>,
     <<Param(<<"a", "c", "c", "o", "u", "n", "t", "_", "i", "d">>, FALSE), Param(<<"c", "o", "n", "t", "r", "a", "c", "t">>, FALSE)>>,
     <<Param(<<"c", "u", "s", "t", "o", "m", "e", "r", "_", "i", "d">>, FALSE), Param(<<"f", "o", "r", "c", "e">>, FALSE)>>,
     <<Param(<<"f", "o", "r", "c", "e">>, TRUE)>>}

\* The accessor looked up on the session object: whether the attribute
\* exists, its declared parameters, and what a call of it does: return a
\* value ("value"), raise ("raise") or return a coroutine ("coroutine")
\* that ends with a value (fail = NoExc) or with the failure fail.
Accessors ==
    {[exists |-> FALSE, params |-> <<>>, does |-> "value", fail |-> NoExc]}
    \cup {[exists |-> TRUE, params |-> sg, does |-> d, fail |-> NoExc] :
             sg \in Signatures, d \in {"value", "coroutine"}}
    \cup {[exists |-> TRUE, params |-> sg, does |-> d, fail |-> f] :
             sg \in Signatures, d \in {"raise", "coroutine"}, f \in AccessorFailures}

\* Lines 364-373: the keyword arguments, in the order of the parameters.
RoleValue(p, cust, acct, ctrt) ==
    CASE p \in {<<"c", "u", "s", "t", "o", "m", "e", "r">>, <<"c", "u", "s", "t", "o", "m", "e", "r", "_", "i", "d">>} /\ cust # "" -> cust
      [] p \in {<<"a", "c", "c", "o", "u", "n", "t">>, <<"a", "c", "c", "o", "u", "n", "t", "_", "i", "d">>} /\ acct # "" -> acct
      [] p \in {<<"c", "o", "n", "t", "r", "a", "c", "t">>, <<"c", "o", "n", "t", "r", "a", "c", "t", "_", "i", "d">>} /\ ctrt # "" -> ctrt
      [] p \in {<<"v", "e", "r", "i", "f", "y", "_", "s", "s", "l">>} -> "True"
      [] OTHER -> ""

\* The keyword arguments keyed by the lower-cased parameter names.
BuildKwargsLowerKeys(params, cust, acct, ctrt) ==
    LET chosen == SelectSeq(params,
                     LAMBDA q : RoleValue(LowerText(q.name), cust, acct, ctrt) # "")
    IN [i \in 1..Len(chosen) |->
          [k |-> LowerText(chosen[i].name),
           v |-> RoleValue(LowerText(chosen[i].name), cust, acct, ctrt)]]

BuildKwargs(params, cust, acct, ctrt) ==
    LET chosen == SelectSeq(params,
                     LAMBDA q : RoleValue(LowerText(q.name), cust, acct, ctrt) # "")
    IN [i \in 1..Len(chosen) |->
          [k |-> chosen[i].name,
           v |-> RoleValue(LowerText(chosen[i].name), cust, acct, ctrt)]]

Supplied(kw, name) == \E i \in 1..Len(kw) : kw[i].k = name

\* Line 376: m(**kwargs) fails with TypeError when a parameter without a
\* default receives no argument.
MissingArgument(params, kw) ==
    \E i \in 1..Len(params) : params[i].required /\ ~Supplied(kw, params[i].name)

\* The coroutine object: "none" before the accessor returned it, "created"
\* until an event loop runs it, then "finished"; submits counts the times it
\* was handed to an event loop.
NoCoro == [state |-> "none", submits |-> 0]

NoOutcome == [status |-> "none", error |-> NoExc]
Returned == [status |-> "returned", error |-> NoExc]
Raised(e) == [status |-> "raised", error |-> e]

InitCall ==
    /\ accessor \in Accessors
    /\ c_pc = "call"
    /\ kwargs = <<>>
    /\ invocations = 0
    /\ coro = NoCoro
    /\ result_container = "empty"
    /\ error_container = NoExc
    /\ c_outcome = NoOutcome

IdleCall ==
    /\ accessor = [exists |-> FALSE, params |-> <<>>, does |-> "value", fail |-> NoExc]
    /\ c_pc = "idle"
    /\ kwargs = <<>>
    /\ invocations = 0
    /\ coro = NoCoro
    /\ result_container = "empty"
    /\ error_container = NoExc
    /\ c_outcome = NoOutcome

\* Lines 356-373: the attribute test and the keyword arguments.
CallInspect ==
    /\ c_pc = "call"
    /\ IF ~accessor.exists
       THEN /\ c_outcome' = Raised(Exc("AttributeError", "call_hydroqc_once"))
            /\ c_pc' = "done"
            /\ kwargs' = kwargs
       ELSE /\ kwargs' = BuildKwargs(accessor.params, cust_id, acct_id, ctrt_id)
            /\ c_pc' = "invoke"
            /\ c_outcome' = c_outcome
    /\ UNCHANGED <<notCall, accessor, invocations, coro,
                   result_container, error_container>>

\* Lines 376-377: the one call of the accessor.
CallInvoke ==
    /\ c_pc = "invoke"
    /\ invocations' = invocations + 1
    /\ IF MissingArgument(accessor.params, kwargs)
       THEN /\ c_outcome' = Raised(Exc("TypeError", "call"))
            /\ c_pc' = "done"
            /\ coro' = coro
       ELSE CASE accessor.does = "value" ->
                   /\ c_outcome' = Returned
                   /\ c_pc' = "done"
                   /\ coro' = coro
              [] accessor.does = "raise" ->
                   /\ c_outcome' = Raised(accessor.fail)
                   /\ c_pc' = "done"
                   /\ coro' = coro
              [] OTHER ->
                   /\ coro' = [state |-> "created", submits |-> 0]
                   /\ c_pc' = "asyncio_run"
                   /\ c_outcome' = c_outcome
    /\ UNCHANGED <<notCall, accessor, kwargs,
                   result_container, error_container>>

\* The except clause of line 332.
CaughtByRunCoro(e) == IsRuntimeError(e)

\* Line 331, asyncio.run(coro) for a coroutine that ends with fail (NoExc:
\* with a value).  With a loop already running in the thread it raises
\* RuntimeError before it starts the coroutine; otherwise it runs the
\* coroutine to its end.
AsyncioRun(fail, loop) ==
    IF loop THEN [raised |-> Exc("RuntimeError", "asyncio.run"), started |-> FALSE]
    ELSE [raised |-> fail, started |-> TRUE]

\* Lines 336-346: the worker thread runs loop.run_until_complete(coro) on a
\* loop of its own.  A coroutine that already ran is refused with
\* RuntimeError; a failure that is an Exception is stored, any other ends
\* the thread without being stored.
ThreadRun(fail, already_ran) ==
    LET e == IF already_ran
             THEN Exc("RuntimeError", "cannot reuse already awaited coroutine")
             ELSE fail
    IN [result |-> IF e = NoExc THEN "result" ELSE "empty",
        error |-> IF e # NoExc /\ IsException(e) THEN e ELSE NoExc]

\* Lines 347-349: the stored failure is raised, else the stored result (or
\* None) is returned.
AfterJoin(error) == IF error # NoExc THEN Raised(error) ELSE Returned

\* Lines 328-349 as a whole: how run_coro ends for a coroutine that ends
\* with fail.
run_coro(fail, loop) ==
    LET a == AsyncioRun(fail, loop)
    IN IF a.raised = NoExc THEN Returned
       ELSE IF ~CaughtByRunCoro(a.raised) THEN Raised(a.raised)
       ELSE AfterJoin(ThreadRun(fail, a.started).error)

\* Lines 330-332.  A RuntimeError, whichever its origin, enters the except
\* clause; any other failure leaves run_coro.
RunCoroAsyncioRun ==
    /\ c_pc = "asyncio_run"
    /\ LET a == AsyncioRun(accessor.fail, loop_running)
       IN /\ coro' = IF a.started
                     THEN [state |-> "finished", submits |-> coro.submits + 1]
                     ELSE coro
          /\ IF a.raised = NoExc
             THEN c_pc' = "done" /\ c_outcome' = Returned
             ELSE IF CaughtByRunCoro(a.raised)
                  THEN c_pc' = "thread" /\ c_outcome' = c_outcome
                  ELSE c_pc' = "done" /\ c_outcome' = Raised(a.raised)
    /\ UNCHANGED <<notCall, accessor, kwargs, invocations,
                   result_container, error_container>>

\* Lines 336-346: the thread is started and joined.
RunCoroThread ==
    /\ c_pc = "thread"
    /\ coro' = [state |-> "finished", submits |-> coro.submits + 1]
    /\ LET t == ThreadRun(accessor.fail, coro.state = "finished")
       IN /\ result_container' = t.result
          /\ error_container' = t.error
    /\ c_pc' = "joined"
    /\ UNCHANGED <<notCall, accessor, kwargs, invocations, c_outcome>>

\* Lines 347-349.
RunCoroAfterJoin ==
    /\ c_pc = "joined"
    /\ c_outcome' = AfterJoin(error_container)
    /\ c_pc' = "done"
    /\ UNCHANGED <<notCall, accessor, kwargs, invocations, coro,
                   result_container, error_container>>

(***************************************************************************)
(* get_hydroqc_session                                                     *)
(***************************************************************************)
\* The installed hydroqc build: the attributes among customer, account and
\* contract its session objects expose, those among them that refuse
\* assignment, and whether a HydroClient has a login method.
IdAttributes == {"customer", "account", "contract"}
Libraries ==
    {[exposed |-> ex, readonly |-> ro, has_login |-> hl] :
        ex \in SUBSET IdAttributes, ro \in {{}, {"customer"}}, hl \in BOOLEAN}

\* How one construction or import may end: NoExc, or the exception raised.
ImportResults(step) == {NoExc, Exc("ImportError", step)}
ConstructResults(step) == {NoExc, Exc("TypeError", step), Exc("ValueError", step)}

\* How a login call may end: a plain return, a raised failure, or a
\* coroutine that ends with a value or with a failure.
LoginResults(step) ==
    {[async |-> FALSE, fail |-> NoExc], [async |-> FALSE, fail |-> Exc("ValueError", step)],
     [async |-> TRUE, fail |-> NoExc], [async |-> TRUE, fail |-> Exc("ValueError", step)],
     [async |-> TRUE, fail |-> Exc("RuntimeError", step)]}

\* Lines 394-396 and 411-413: the login call, awaited through run_coro
\* when it returned a coroutine.  The exception that leaves, or NoExc.
LoginOutcome(r, loop) ==
    IF r.async THEN run_coro(r.fail, loop).error ELSE r.fail

\* The except clauses of lines 391 and 408.
RetryReducedArguments(e) == e.type = "TypeError"

\* The message of lines 420-422 named only after the HydroClient error.
SessionErrorClientOnly(e_w, e_c) ==
    [type |-> "RuntimeError", origin |-> "get_hydroqc_session", names |-> <<e_c>>]

\* Lines 420-422: the error raised, and the causes its message names.
SessionError(e_w, e_c) ==
    [type |-> "RuntimeError", origin |-> "get_hydroqc_session", names |-> <<e_w, e_c>>]

\* Lines 398-401 and 414-417: the identifiers set on the object.
Attached(library, cust, acct, ctrt) ==
    {n \in library.exposed \ library.readonly :
        \/ n = "customer" /\ cust # ""
        \/ n = "account" /\ acct # ""
        \/ n = "contract" /\ ctrt # ""}

NoSession == [surface |-> "none", args |-> 0, login_called |-> FALSE, attached |-> {}]
NoSessionOutcome == [status |-> "none", error |-> [type |-> "none", origin |-> "none", names |-> <<>>]]
Step(step, e) == [step |-> step, exc |-> e]

InitSession ==
    /\ lib \in Libraries
    /\ s_pc = "p_import"
    /\ session = NoSession
    /\ e_webuser = NoExc
    /\ e_client = NoExc
    /\ s_trace = <<>>
    /\ s_outcome = NoSessionOutcome

IdleSession ==
    /\ lib = [exposed |-> {}, readonly |-> {}, has_login |-> FALSE]
    /\ s_pc = "idle"
    /\ session = NoSession
    /\ e_webuser = NoExc
    /\ e_client = NoExc
    /\ s_trace = <<>>
    /\ s_outcome = NoSessionOutcome

\* Line 403: any Exception of the primary surface starts the secondary one.
PrimaryFails(step, e) ==
    /\ e_webuser' = e
    /\ s_pc' = "s_import"
    /\ s_trace' = Append(s_trace, Step(step, e))
    /\ UNCHANGED <<session, e_client, s_outcome>>

\* Lines 419-422: any Exception of the secondary surface raises the error.
SecondaryFails(step, e) ==
    /\ e_client' = e
    /\ s_outcome' = [status |-> "raised", error |-> SessionError(e_webuser, e)]
    /\ s_pc' = "done"
    /\ s_trace' = Append(s_trace, Step(step, e))
    /\ UNCHANGED <<session, e_webuser>>

Proceeds(step, next) ==
    /\ s_pc' = next
    /\ s_trace' = Append(s_trace, Step(step, NoExc))
    /\ UNCHANGED <<e_webuser, e_client, s_outcome>>

\* Line 388.
PrimaryImport ==
    /\ s_pc = "p_import"
    /\ \E e \in ImportResults("p_import") :
         IF e = NoExc THEN Proceeds("p_import", "p_ctor3") /\ UNCHANGED session
         ELSE PrimaryFails("p_import", e)
    /\ UNCHANGED <<notSession, lib>>

\* Lines 389-391: WebUser(_email, _password, True).
PrimaryConstruct3 ==
    /\ s_pc = "p_ctor3"
    /\ \E e \in ConstructResults("p_ctor3") :
         IF e = NoExc
         THEN /\ Proceeds("p_ctor3", "p_login")
              /\ session' = [NoSession EXCEPT !.surface = "WebUser", !.args = 3]
         ELSE IF RetryReducedArguments(e)
         THEN /\ s_pc' = "p_ctor2"
              /\ s_trace' = Append(s_trace, Step("p_ctor3", e))
              /\ UNCHANGED <<session, e_webuser, e_client, s_outcome>>
         ELSE PrimaryFails("p_ctor3", e)
    /\ UNCHANGED <<notSession, lib>>

\* Line 392: WebUser(_email, _password).
PrimaryConstruct2 ==
    /\ s_pc = "p_ctor2"
    /\ \E e \in ConstructResults("p_ctor2") :
         IF e = NoExc
         THEN /\ Proceeds("p_ctor2", "p_login")
              /\ session' = [NoSession EXCEPT !.surface = "WebUser", !.args = 2]
         ELSE PrimaryFails("p_ctor2", e)
    /\ UNCHANGED <<notSession, lib>>

\* Lines 394-396: user.login().
PrimaryLogin ==
    /\ s_pc = "p_login"
    /\ \E r \in LoginResults("p_login") :
         LET e == LoginOutcome(r, loop_running)
         IN IF e = NoExc
            THEN /\ Proceeds("p_login", "p_return")
                 /\ session' = [session EXCEPT !.login_called = TRUE]
            ELSE PrimaryFails("p_login", e)
    /\ UNCHANGED <<notSession, lib>>

\* Lines 398-402: the identifiers are attached and the user is returned.
PrimaryReturn ==
    /\ s_pc = "p_return"
    /\ session' = [session EXCEPT !.attached = Attached(lib, cust_id, acct_id, ctrt_id)]
    /\ s_outcome' = [NoSessionOutcome EXCEPT !.status = "returned"]
    /\ s_pc' = "done"
    /\ UNCHANGED <<notSession, lib, e_webuser, e_client, s_trace>>

\* Line 405.
SecondaryImport ==
    /\ s_pc = "s_import"
    /\ \E e \in ImportResults("s_import") :
         IF e = NoExc THEN Proceeds("s_import", "s_ctor2") /\ UNCHANGED session
         ELSE SecondaryFails("s_import", e)
    /\ UNCHANGED <<notSession, lib>>

\* Line 410: client.login is called only when the client has the attribute.
AfterSecondaryConstruct(library) == IF library.has_login THEN "s_login" ELSE "s_return"

\* Lines 406-408 and 410: HydroClient(_email, _password), then the test
\* for a login method.
SecondaryConstruct2 ==
    /\ s_pc = "s_ctor2"
    /\ \E e \in ConstructResults("s_ctor2") :
         IF e = NoExc
         THEN /\ Proceeds("s_ctor2", AfterSecondaryConstruct(lib))
              /\ session' = [NoSession EXCEPT !.surface = "HydroClient", !.args = 2]
         ELSE IF RetryReducedArguments(e)
         THEN /\ s_pc' = "s_ctor0"
              /\ s_trace' = Append(s_trace, Step("s_ctor2", e))
              /\ UNCHANGED <<session, e_webuser, e_client, s_outcome>>
         ELSE SecondaryFails("s_ctor2", e)
    /\ UNCHANGED <<notSession, lib>>

\* Lines 409-410: HydroClient(), then the test for a login method.
SecondaryConstruct0 ==
    /\ s_pc = "s_ctor0"
    /\ \E e \in ConstructResults("s_ctor0") :
         IF e = NoExc
         THEN /\ Proceeds("s_ctor0", AfterSecondaryConstruct(lib))
              /\ session' = [NoSession EXCEPT !.surface = "HydroClient", !.args = 0]
         ELSE SecondaryFails("s_ctor0", e)
    /\ UNCHANGED <<notSession, lib>>

\* Lines 411-413: client.login(_email, _password).
SecondaryLogin ==
    /\ s_pc = "s_login"
    /\ \E r \in LoginResults("s_login") :
         LET e == LoginOutcome(r, loop_running)
         IN IF e = NoExc
            THEN /\ Proceeds("s_login", "s_return")
                 /\ session' = [session EXCEPT !.login_called = TRUE]
            ELSE SecondaryFails("s_login", e)
    /\ UNCHANGED <<notSession, lib>>

\* Lines 414-418: the identifiers are attached and the client is returned.
SecondaryReturn ==
    /\ s_pc = "s_return"
    /\ session' = [session EXCEPT !.attached = Attached(lib, cust_id, acct_id, ctrt_id)]
    /\ s_outcome' = [NoSessionOutcome EXCEPT !.status = "returned"]
    /\ s_pc' = "done"
    /\ UNCHANGED <<notSession, lib, e_webuser, e_client, s_trace>>

(***************************************************************************)
(* normalize_usage_df                                                      *)
(***************************************************************************)
\* Lines 96-99.
kwh_candidates ==
    <<<<"k", "w", "h">>,
      <<"k", "w", "_", "h">>,
      <<"v", "a", "l", "u", "e", "k", "w", "h">>,
      <<"c", "o", "n", "s", "u", "m", "p", "t", "i", "o", "n">>,
      <<"e", "n", "e", "r", "g", "y">>,
      <<"v", "a", "l", "e", "u", "r">>,
      <<"v", "a", "l", "u", "e">>>>
date_candidates_monthly_month_last ==
    <<<<"p", "e", "r", "i", "o", "d", "e">>,
      <<"p", "e", "r", "i", "o", "d">>,
      <<"d", "a", "t", "e">>,
      <<"m", "o", "i", "s">>,
      <<"m", "o", "n", "t", "h">>>>
date_candidates_monthly ==
    <<<<"m", "o", "n", "t", "h">>,
      <<"p", "e", "r", "i", "o", "d", "e">>,
      <<"p", "e", "r", "i", "o", "d">>,
      <<"d", "a", "t", "e">>,
      <<"m", "o", "i", "s">>>>
date_candidates_daily ==
    <<<<"d", "a", "t", "e">>,
      <<"j", "o", "u", "r">>,
      <<"d", "a", "y">>,
      <<"p", "e", "r", "i", "o", "d", "e">>,
      <<"p", "e", "r", "i", "o", "d">>>>
ts_candidates_hourly ==
    <<<<"t", "i", "m", "e", "s", "t", "a", "m", "p">>,
      <<"t", "i", "m", "e">>,
      <<"d", "a", "t", "e", "t", "i", "m", "e">>,
      <<"h", "e", "u", "r", "e">>,
      <<"p", "e", "r", "i", "o", "d">>,
      <<"p", "e", "r", "i", "o", "d", "e">>>>

\* A table: None, or a frame of named columns of cells (all of one length).
Column(name, cells) == [name |-> name, cells |-> cells]
Frame(cols) == [shape |-> "frame", cols |-> cols]
NoneFrame == [shape |-> "none", cols |-> <<>>]

\* df is None or df.empty (no column, or no row).
IsEmptyFrame(df) ==
    \/ df.shape = "none"
    \/ df.cols = <<>>
    \/ \A i \in 1..Len(df.cols) : df.cols[i].cells = <<>>

HasColumn(df, name) == \E i \in 1..Len(df.cols) : df.cols[i].name = name

\* Lines 101-105: the first candidate that is a column, <<>> for None.
first_existing(cands, df) ==
    IF \E q \in 1..Len(cands) : HasColumn(df, cands[q])
    THEN cands[CHOOSE q \in 1..Len(cands) :
                  /\ HasColumn(df, cands[q])
                  /\ \A r \in 1..(q - 1) : ~HasColumn(df, cands[r])]
    ELSE <<>>

\* df.rename(columns={old: new}): every column named old is renamed.
Rename(df, old, new) ==
    [df EXCEPT !.cols = [i \in 1..Len(df.cols) |->
        IF df.cols[i].name = old THEN [df.cols[i] EXCEPT !.name = new] ELSE df.cols[i]]]

\* Line 94.
LowerColumns(df) ==
    [df EXCEPT !.cols = [i \in 1..Len(df.cols) |->
        [df.cols[i] EXCEPT !.name = LowerText(@)]]]

\* Lines 110-113 (and their Daily and Hourly twins).
RenameChosen(df, col, canonical) ==
    IF col # <<>> /\ col # canonical THEN Rename(df, col, canonical) ELSE df

\* The format of a date text, "" for a cell that is no date text.
TextFormat(v) == IF v.kind \in {"date", "dt", "ym"} THEN v.kind ELSE ""

\* pd.to_datetime on a column: [ok, cells].  It raises when a cell cannot
\* be parsed and, with a pandas that infers one format for the column
\* (strict), when two date texts have different formats.
ToDatetimeColumn(cells, strict) ==
    LET parsed == [i \in 1..Len(cells) |-> ToDatetimeScalar(cells[i])]
        mixed == \E i, j \in 1..Len(cells) :
                    /\ TextFormat(cells[i]) # "" /\ TextFormat(cells[j]) # ""
                    /\ TextFormat(cells[i]) # TextFormat(cells[j])
    IN IF (\E i \in 1..Len(cells) : ~parsed[i].ok) \/ (strict /\ mixed)
       THEN [ok |-> FALSE, cells |-> cells]
       ELSE [ok |-> TRUE, cells |-> [i \in 1..Len(cells) |-> parsed[i].ts]]

\* .dt.date.astype(str)
DateText(t) == IF t.kind = "ts" THEN DateStr(t.a, t.b, t.c) ELSE NatStr

\* The representation the time column is given, per granularity
\* (lines 116, 129, 142).
Represent(t, granularity) ==
    CASE granularity = "Monthly" -> PeriodMonthText(t)
      [] granularity = "Daily" -> DateText(t)
      [] OTHER -> t

\* Lines 114-118, 127-131, 140-144: the coercion of the canonical column,
\* left as it is when anything raises.  df[canonical] is a frame, which
\* pd.to_datetime rejects, when several columns bear the name.
CoerceTime(df, canonical, granularity, strict) ==
    LET idx == {i \in 1..Len(df.cols) : df.cols[i].name = canonical}
    IN IF Cardinality(idx) # 1 THEN df
       ELSE LET i == CHOOSE i \in idx : TRUE
                r == ToDatetimeColumn(df.cols[i].cells, strict)
            IN IF ~r.ok THEN df
               ELSE [df EXCEPT !.cols[i].cells =
                        [q \in 1..Len(r.cells) |-> Represent(r.cells[q], granularity)]]

TimeCandidates(granularity) ==
    CASE granularity = "Monthly" -> date_candidates_monthly
      [] granularity = "Daily" -> date_candidates_daily
      [] OTHER -> ts_candidates_hourly

CanonicalTime(granularity) ==
    CASE granularity = "Monthly" -> <<"m", "o", "n", "t", "h">>
      [] granularity = "Daily" -> <<"d", "a", "t", "e">>
      [] OTHER -> <<"t", "i", "m", "e", "s", "t", "a", "m", "p">>

\* Lines 88-146.
normalize_usage_df(df, granularity, strict) ==
    IF IsEmptyFrame(df) THEN df
    ELSE IF granularity \notin {"Monthly", "Daily", "Hourly"} THEN LowerColumns(df)
    ELSE LET low == LowerColumns(df)
             date_col == first_existing(TimeCandidates(granularity), low)
             val_col == first_existing(kwh_candidates, low)
             r1 == RenameChosen(low, date_col, CanonicalTime(granularity))
             r2 == RenameChosen(r1, val_col, <<"k", "w", "h">>)
         IN CoerceTime(r2, CanonicalTime(granularity), granularity, strict)

\* The column names and the cell vectors the inputs are drawn from.
UsageNames ==
    <<<<"D", "a", "t", "e">>,
      <<"d", "a", "t", "e">>,
      <<"p", "e", "r", "i", "o", "d", "e">>,
      <<"P", "e", "r", "i", "o", "d">>,
      <<"M", "O", "I", "S">>,
      <<"m", "o", "n", "t", "h">>,
      <<"t", "i", "m", "e", "s", "t", "a", "m", "p">>,
      <<"H", "e", "u", "r", "e">>,
      <<"j", "o", "u", "r">>,
      <<"k", "W", "h">>,
      <<"e", "n", "e", "r", "g", "y">>,
      <<"i", "d">>>>
TimeVectors ==
    {<<DateStr(2024, 1, 15), DateStr(2024, 2, 3)>>,
     <<DateStr(2024, 1, 15), DtStr(2024, 1, 15, 10)>>,
     <<YmStr(2024, 2), NullV>>,
     <<DtStr(2024, 3, 31, 23), DtStr(2024, 4, 1, 0)>>,
     <<Str(1), DateStr(2024, 1, 15)>>}

RECURSIVE FramesFrom(_, _)
\* The lists of at most n columns named by names of index >= from in
\* UsageNames, in that order.
FramesFrom(from, n) ==
    IF n = 0 \/ from > Len(UsageNames) THEN {<<>>}
    ELSE FramesFrom(from + 1, n)
         \cup {<<Column(UsageNames[from], v)>> \o rest :
                 v \in TimeVectors, rest \in FramesFrom(from + 1, n - 1)}

UsageInputs ==
    {NoneFrame, Frame(<<Column(<<"D", "a", "t", "e">>, <<>>)>>)}
    \cup {Frame(c) : c \in FramesFrom(1, MaxCols)}

InitNormalize ==
    /\ n_df \in UsageInputs
    /\ n_granularity \in {"Hourly", "Daily", "Monthly"}
    /\ pandas_strict \in BOOLEAN
    /\ n_pc = "call"
    /\ n_once = NoneFrame
    /\ n_twice = NoneFrame

IdleNormalize ==
    /\ n_df = NoneFrame
    /\ n_granularity = "Hourly"
    /\ pandas_strict = FALSE
    /\ n_pc = "idle"
    /\ n_once = NoneFrame
    /\ n_twice = NoneFrame

\* normalize_usage_df(df, granularity)
NormalizeOnce ==
    /\ n_pc = "call"
    /\ n_once' = normalize_usage_df(n_df, n_granularity, pandas_strict)
    /\ n_pc' = "once"
    /\ UNCHANGED <<notNormalize, n_df, n_granularity, pandas_strict, n_twice>>

\* normalize_usage_df applied to its own output.
NormalizeAgain ==
    /\ n_pc = "once"
    /\ n_twice' = normalize_usage_df(n_once, n_granularity, pandas_strict)
    /\ n_pc' = "twice"
    /\ UNCHANGED <<notNormalize, n_df, n_granularity, pandas_strict, n_once>>

(***************************************************************************)
(* The usage RUN block (lines 241-315) with the cached client and the      *)
(* cached fetches (lines 196-221).  One press of RUN is one run of the     *)
(* script; r_calls lists the network calls of the run in progress.         *)
(***************************************************************************)
Days == 0..MaxDay
Granularities == {"Hourly", "Daily", "Monthly"}

\* The key under which st.cache_data keeps a fetch: the function, and for
\* fetch_daily_df its two dates (_email and _password are not hashed).
FetchKey(g, s, e) ==
    IF g = "Daily" THEN [fn |-> "Daily", s |-> s, e |-> e]
    ELSE [fn |-> g, s |-> 0, e |-> 0]

FetchCall(g) ==
    CASE g = "Hourly" -> "get_hourly_usage"
      [] g = "Daily" -> "get_daily_usage"
      [] OTHER -> "get_monthly_usage"

\* The test of line 243 with the comparison reversed.
DailyRangeRejectedReversed(g, s, e) == g = "Daily" /\ e > s

\* Line 243.
DailyRangeRejected(g, s, e) == g = "Daily" /\ s > e

\* Lines 201-203 behind st.cache_resource: the calls made to obtain the
\* client (none when it is cached).
ClientCalls(cached) == IF cached THEN <<>> ELSE <<"HydroQuebec", "login">>

Outcomes == {"ok", "HTTPError", "Exception"}

InitRun ==
    /\ u_granularity \in Granularities
    /\ start_date \in Days
    /\ end_date \in Days
    /\ r_pc = "idle"
    /\ client_cached = FALSE
    /\ data_cache = {}
    /\ r_calls = <<>>
    /\ r_msgs = <<>>

IdleRun ==
    /\ u_granularity = "Hourly"
    /\ start_date = 0
    /\ end_date = 0
    /\ r_pc = "off"
    /\ client_cached = FALSE
    /\ data_cache = {}
    /\ r_calls = <<>>
    /\ r_msgs = <<>>

\* The widgets are set and RUN is pressed (lines 173-183, 242).
RunClicked ==
    /\ r_pc \in {"idle", "stopped", "done"}
    /\ u_granularity' \in Granularities
    /\ start_date' \in Days
    /\ end_date' \in Days
    /\ r_pc' = "validate"
    /\ r_calls' = <<>>
    /\ r_msgs' = <<>>
    /\ UNCHANGED <<notRun, client_cached, data_cache>>

\* Lines 185-187 and 189-191: the two cache buttons.
ClearDataCache ==
    /\ r_pc \in {"idle", "stopped", "done"}
    /\ data_cache # {}
    /\ data_cache' = {}
    /\ r_pc' = "idle"
    /\ r_calls' = <<>>
    /\ r_msgs' = <<"Data cache cleared.">>
    /\ UNCHANGED <<notRun, u_granularity, start_date, end_date, client_cached>>

ClearResourceCache ==
    /\ r_pc \in {"idle", "stopped", "done"}
    /\ client_cached
    /\ client_cached' = FALSE
    /\ r_pc' = "idle"
    /\ r_calls' = <<>>
    /\ r_msgs' = <<"Resource cache cleared.">>
    /\ UNCHANGED <<notRun, u_granularity, start_date, end_date, data_cache>>

\* Lines 243-245.
RunValidate ==
    /\ r_pc = "validate"
    /\ IF DailyRangeRejected(u_granularity, start_date, end_date)
       THEN /\ r_msgs' = Append(r_msgs, "Start date must be before end date.")
            /\ r_pc' = "stopped"
       ELSE /\ r_msgs' = r_msgs
            /\ r_pc' = "login"
    /\ UNCHANGED <<notRun, u_granularity, start_date, end_date, client_cached,
                   data_cache, r_calls>>

\* Lines 247-255: the client is obtained, or the run is stopped.
RunLogin ==
    /\ r_pc = "login"
    /\ r_calls' = r_calls \o ClientCalls(client_cached)
    /\ \E o \in Outcomes :
         /\ IF client_cached \/ o = "ok"
            THEN /\ client_cached' = TRUE
                 /\ r_msgs' = Append(r_msgs, "Logged in (usage).")
                 /\ r_pc' = "fetch"
            ELSE /\ client_cached' = FALSE
                 /\ r_msgs' = Append(r_msgs, IF o = "HTTPError"
                                              THEN "Login (usage) failed."
                                              ELSE "Login failed (usage)")
                 /\ r_pc' = "stopped"
    /\ UNCHANGED <<notRun, u_granularity, start_date, end_date, data_cache>>

\* Lines 257-313: the fetch of the selected granularity behind
\* st.cache_data, then the normalization and the rendering; a failure is
\* shown and ends the run.
RunFetch ==
    /\ r_pc = "fetch"
    /\ LET key == FetchKey(u_granularity, start_date, end_date)
       IN IF key \in data_cache
          THEN /\ r_msgs' = Append(r_msgs, "table")
               /\ UNCHANGED <<r_calls, data_cache>>
          ELSE \E o \in Outcomes :
                 /\ r_calls' = Append(r_calls, FetchCall(u_granularity))
                 /\ IF o = "ok"
                    THEN /\ data_cache' = data_cache \cup {key}
                         /\ r_msgs' = Append(r_msgs, "table")
                    ELSE /\ data_cache' = data_cache
                         /\ r_msgs' = Append(r_msgs, IF o = "HTTPError"
                                                      THEN "Data retrieval (usage) failed."
                                                      ELSE "exception")
    /\ r_pc' = "done"
    /\ UNCHANGED <<notRun, u_granularity, start_date, end_date, client_cached>>

(***************************************************************************)
(* The billing RUN block (lines 510-561).  hq_session is the object        *)
(* get_hydroqc_session returned: for each accessor name, the attribute the *)
(* object has under that name.                                             *)
(***************************************************************************)
AccessorNames ==
    <<"check_hq_portal_status", "get_info", "fetch_customers_info", "get_customer">>

\* The attributes a session object may have under an accessor name.
SessionAccessors ==
    LET none == <<>>
        cust == <<Param(<<"c", "u", "s", "t", "o", "m", "e", "r", "_", "i", "d">>, TRUE)>>
        A(e, sg, d, f) == [exists |-> e, params |-> sg, does |-> d, fail |-> f]
    IN {A(FALSE, none, "value", NoExc),
        A(TRUE, none, "value", NoExc),
        A(TRUE, cust, "value", NoExc),
        A(TRUE, none, "raise", Exc("ValueError", "accessor")),
        A(TRUE, none, "coroutine", NoExc),
        A(TRUE, none, "coroutine", Exc("RuntimeError", "accessor")),
        A(TRUE, none, "coroutine", Exc("CancelledError", "accessor"))}

\* Lines 351-377 as a whole: how one call of call_hydroqc_once ends.
call_hydroqc_once(acc, cust, acct, ctrt, loop) ==
    IF ~acc.exists THEN Raised(Exc("AttributeError", "call_hydroqc_once"))
    ELSE IF MissingArgument(acc.params, BuildKwargs(acc.params, cust, acct, ctrt))
    THEN Raised(Exc("TypeError", "call"))
    ELSE CASE acc.does = "value" -> Returned
           [] acc.does = "raise" -> Raised(acc.fail)
           [] OTHER -> run_coro(acc.fail, loop)

\* The value a call that returned hands back: None when the coroutine's
\* result never reached result_container (line 349).
ResultOf(acc) == IF acc.fail = NoExc THEN "value" ELSE "None"

\* An except clause that takes only the AttributeError of a missing accessor.
SkippedByRunBlockAttributeErrorOnly(e) == e.type = "AttributeError"

\* The except clauses of lines 526, 531, 536 and 541.
SkippedByRunBlock(e) == IsException(e)

InitBillingRun ==
    /\ hq_session \in [1..Len(AccessorNames) -> SessionAccessors]
    /\ customers_prop \in {"None", "value"}
    /\ b_pc = "idle"
    /\ b_i = 0
    /\ attempts = [i \in 1..Len(AccessorNames) |-> 0]
    /\ results = [i \in 1..Len(AccessorNames) |-> "None"]
    /\ b_errors = <<>>
    /\ b_raws = <<>>
    /\ b_shown = <<>>
    /\ cust_id \in {"", "0123456789"}
    /\ acct_id = ""
    /\ ctrt_id = ""
    /\ loop_running \in BOOLEAN

IdleBillingRun ==
    /\ hq_session = <<>>
    /\ customers_prop = "None"
    /\ b_pc = "off"
    /\ b_i = 0
    /\ attempts = <<>>
    /\ results = <<>>
    /\ b_errors = <<>>
    /\ b_raws = <<>>
    /\ b_shown = <<>>

\* Lines 504 and 510-516: RUN (Billing) is pressed and the session is
\* obtained, or the run is stopped.
BillingRunLogin ==
    /\ b_pc = "idle"
    /\ \E obtained \in BOOLEAN :
         IF obtained
         THEN /\ b_shown' = Append(b_shown, "Logged in (billing).")
              /\ b_errors' = b_errors
              /\ b_pc' = "accessor"
              /\ b_i' = 1
         ELSE /\ b_errors' = Append(b_errors, "hydroqc login failed")
              /\ b_shown' = b_shown
              /\ b_pc' = "stopped"
              /\ b_i' = b_i
    /\ UNCHANGED <<notBillingRun, hq_session, attempts, results, customers_prop, b_raws>>

\* Lines 524-542: one of the four try blocks.  A failure the except clause
\* takes is shown and the variable keeps its None; any other failure leaves
\* the script run.
BillingRunAccessor ==
    /\ b_pc = "accessor"
    /\ LET out == call_hydroqc_once(hq_session[b_i], cust_id, acct_id, ctrt_id, loop_running)
       IN /\ attempts' = [attempts EXCEPT ![b_i] = @ + 1]
          /\ IF out.status = "returned"
             THEN /\ results' = [results EXCEPT ![b_i] = ResultOf(hq_session[b_i])]
                  /\ b_errors' = b_errors
                  /\ b_pc' = IF b_i = Len(AccessorNames) THEN "normalize" ELSE "accessor"
             ELSE IF SkippedByRunBlock(out.error)
             THEN /\ results' = results
                  /\ b_errors' = Append(b_errors, AccessorNames[b_i])
                  /\ b_pc' = IF b_i = Len(AccessorNames) THEN "normalize" ELSE "accessor"
             ELSE /\ results' = results
                  /\ b_errors' = b_errors
                  /\ b_pc' = "aborted"
    /\ b_i' = b_i + 1
    /\ UNCHANGED <<notBillingRun, hq_session, customers_prop, b_raws, b_shown>>

\* Lines 544-561: the raw values are shown and normalized, and the table
\* or the notice of no billing field is shown.  normalize_billing yields
\* no row when every raw value is None, and may raise on the others.
BillingRunNormalize ==
    /\ b_pc = "normalize"
    /\ b_raws' = results \o <<customers_prop>>
    /\ \E shown \in {"info", "table", "raised"} :
         /\ (\A i \in 1..Len(b_raws') : b_raws'[i] = "None") => shown = "info"
         /\ b_shown' = Append(b_shown, shown)
         /\ b_pc' = IF shown = "raised" THEN "aborted" ELSE "done"
    /\ UNCHANGED <<notBillingRun, hq_session, b_i, attempts, results, customers_prop,
                   b_errors>>

(***************************************************************************)
(* Specifications.                                                         *)
(***************************************************************************)
NextMonthly == ParseEnter \/ ParseRow \/ ParseReturn
InitSpecMonthly == InitMonthly /\ IdleBilling /\ IdleConfig /\ IdleCall /\ IdleSession /\ IdleNormalize /\ IdleRun /\ IdleBillingRun
SpecMonthly == InitSpecMonthly /\ [][NextMonthly]_vars

NextBilling == BillingExtend \/ BillingReturn
InitSpecBilling == InitBilling /\ IdleMonthly /\ IdleConfig /\ IdleCall /\ IdleSession /\ IdleNormalize /\ IdleRun /\ IdleBillingRun
SpecBilling == InitSpecBilling /\ [][NextBilling]_vars

NextCall ==
    CallInspect \/ CallInvoke \/ RunCoroAsyncioRun \/ RunCoroThread \/ RunCoroAfterJoin
InitSpecCall == InitCall /\ InitConfig /\ IdleMonthly /\ IdleBilling /\ IdleSession /\ IdleNormalize /\ IdleRun /\ IdleBillingRun
SpecCall == InitSpecCall /\ [][NextCall]_vars

NextSession ==
    \/ PrimaryImport \/ PrimaryConstruct3 \/ PrimaryConstruct2 \/ PrimaryLogin
    \/ PrimaryReturn
    \/ SecondaryImport \/ SecondaryConstruct2 \/ SecondaryConstruct0 \/ SecondaryLogin
    \/ SecondaryReturn
InitSpecSession == InitSession /\ InitConfig /\ IdleMonthly /\ IdleBilling /\ IdleCall /\ IdleNormalize /\ IdleRun /\ IdleBillingRun
SpecSession == InitSpecSession /\ [][NextSession]_vars

NextNormalize == NormalizeOnce \/ NormalizeAgain
InitSpecNormalize ==
    /\ InitNormalize /\ IdleConfig /\ IdleMonthly /\ IdleBilling /\ IdleCall
    /\ IdleSession /\ IdleRun /\ IdleBillingRun
SpecNormalize == InitSpecNormalize /\ [][NextNormalize]_vars

NextRun ==
    \/ RunClicked \/ ClearDataCache \/ ClearResourceCache
    \/ RunValidate \/ RunLogin \/ RunFetch
InitSpecRun ==
    /\ InitRun /\ IdleConfig /\ IdleMonthly /\ IdleBilling /\ IdleCall
    /\ IdleSession /\ IdleNormalize /\ IdleBillingRun
SpecRun == InitSpecRun /\ [][NextRun]_vars

NextBillingRun == BillingRunLogin \/ BillingRunAccessor \/ BillingRunNormalize
InitSpecBillingRun ==
    /\ InitBillingRun /\ IdleMonthly /\ IdleBilling /\ IdleCall /\ IdleSession
    /\ IdleNormalize /\ IdleRun
SpecBillingRun == InitSpecBillingRun /\ [][NextBillingRun]_vars

(***************************************************************************)
(* Claims about parse_monthly_rows_from_results (under SpecMonthly).       *)
(***************************************************************************)
\* The payload of row i decodes to a mapping.
DecodesToMapping(p) == p.enc \in {"dict", "json"}

\* C1: the call returns normally, never with an error, and an output that
\* received no usable record is returned as an empty result set; this holds
\* without the 'results' column, when every row is skipped or dropped, and
\* when only one of the two sub-objects ever yields a record.
C1_EmptyOutputsReturnNormally ==
    m_pc = "done" =>
        /\ m_result.status = "returned"
        /\ (current_rows = <<>> => m_result.current = <<>>)
        /\ (compare_rows = <<>> => m_result.compare = <<>>)

\* C6: a row whose decoding or extraction raises contributes no record to
\* either output set, and every other row is still processed (at the end one
\* log entry exists per row).
C6_RaisingRowSkippedWhole ==
    /\ \A i \in 1..Len(m_log) :
           m_log[i].raised => m_log[i].ncur = 0 /\ m_log[i].ncmp = 0
    /\ (m_pc = "done" /\ df_raw.shape = "table" => Len(m_log) = Len(df_raw.rows))

\* C8: a sub-object contributes a record to its output set only when both
\* dateDebutMois and consoTotalMois are present and non-null in it (so a
\* sub-object missing either contributes none), the record carries that
\* total, and a total of 0 counts as present: a courant sub-object with a
\* well-formed start date and total 0 does contribute its record.
C8_EmitOnlyWhenBothPresent ==
    /\ \A i \in 1..Len(m_log) :
         LET p == df_raw.rows[i] IN
           /\ m_log[i].ncur \in {0, 1} /\ m_log[i].ncmp \in {0, 1}
           /\ (m_log[i].ncur = 1 =>
                 /\ DecodesToMapping(p) /\ p.courant.kind = "dict"
                 /\ ~IsNone(p.courant.dateDebutMois)
                 /\ ~IsNone(p.courant.consoTotalMois))
           /\ (m_log[i].ncmp = 1 =>
                 /\ DecodesToMapping(p) /\ p.compare.kind = "dict"
                 /\ ~IsNone(p.compare.dateDebutMois)
                 /\ ~IsNone(p.compare.consoTotalMois))
           /\ (/\ DecodesToMapping(p) /\ p.courant.kind = "dict"
               /\ p.courant.dateDebutMois.kind = "date"
               /\ p.courant.consoTotalMois = Num(0)
               => m_log[i].ncur = 1)
    /\ \A k \in 1..Len(current_rows) :
           ~IsNone(current_rows[k].kwh) /\ ~IsNone(current_rows[k].start_date)
    /\ \A k \in 1..Len(compare_rows) :
           ~IsNone(compare_rows[k].kwh) /\ ~IsNone(compare_rows[k].start_date)

\* C8 witness: a row with total 0 has contributed a current record, and a
\* row whose courant lacks the total has contributed none.
C8_Witness ==
    /\ \E i \in 1..Len(m_log) :
           /\ df_raw.rows[i].courant = SubZero
           /\ m_log[i].ncur = 1
    /\ \E k \in 1..Len(current_rows) : current_rows[k].kwh = Num(0)
    /\ \E i \in 1..Len(m_log) :
           /\ df_raw.rows[i].courant = SubNoTotal
           /\ m_log[i].ncur = 0

(***************************************************************************)
(* Claims about deep_find_items and normalize_billing (under SpecBilling). *)
(***************************************************************************)
\* The keys of mapping x whose normalized form is that of a listed keyword.
KeysLike(x, keywords) ==
    {x.items[i].k : i \in {j \in 1..Len(x.items) :
                             normkey(x.items[j].k) \in {normkey(w) : w \in keywords}}}

\* The raw payloads whose records have been added to rows.
ProcessedNodes ==
    {raws[i].node : i \in {j \in 1..(bl_i - 1) : raws[j].kind \in {"node", "json"}}}

InRows(rec) == \E j \in 1..Len(rows) : rows[j] = rec

\* C2: every visited mapping that has a key whose normalized form is that of
\* a listed due-date keyword yields a record carrying that key's value as
\* due_date, and likewise for the amount keywords and the amount field.
C2_KeywordKeyYieldsRecord ==
    \A obj \in ProcessedNodes : \A x \in MapNodes(obj) :
        /\ KeysLike(x, due_keys) # {} =>
              /\ NodeRecord(x).match
              /\ InRows(NodeRecord(x).rec)
              /\ \E k \in KeysLike(x, due_keys) : NodeRecord(x).rec.due_date = Get(x, k)
        /\ KeysLike(x, amount_keys) # {} =>
              /\ NodeRecord(x).match
              /\ InRows(NodeRecord(x).rec)
              /\ \E k \in KeysLike(x, amount_keys) : NodeRecord(x).rec.amount = Get(x, k)

\* C3: every record emitted has at least one of amount or due_date non-null.
C3_RecordHasAmountOrDueDate ==
    \A j \in 1..Len(rows) : ~IsNone(rows[j].amount) \/ ~IsNone(rows[j].due_date)

\* C4: the table returned by normalize_billing, after the coercions, holds
\* no two rows with identical field values.
C4_NoDuplicateRows ==
    bl_pc = "done" /\ bl_result.status = "returned" =>
        \A i, j \in 1..Len(bl_result.table) :
            i # j => bl_result.table[i] # bl_result.table[j]

(***************************************************************************)
(* Claims about call_hydroqc_once and run_coro (under SpecCall).           *)
(***************************************************************************)
\* C5: when the accessor returned a coroutine that fails with F, the call
\* ends by raising F itself, whatever the kind of F and whether or not an
\* event loop is running; the accessor is invoked once and the coroutine is
\* handed to an event loop at most once.
C5_CoroutineFailurePropagatedUnchanged ==
    c_pc = "done" /\ coro.state # "none" /\ accessor.fail # NoExc =>
        /\ c_outcome = Raised(accessor.fail)
        /\ invocations = 1
        /\ coro.submits <= 1

\* The argument a declared parameter is to receive ("" for none): the
\* configured identifier of its role, or True for verify_ssl.
ExpectedArgument(name) ==
    LET l == LowerText(name)
    IN IF l \in {<<"c", "u", "s", "t", "o", "m", "e", "r">>, <<"c", "u", "s", "t", "o", "m", "e", "r", "_", "i", "d">>} THEN cust_id
       ELSE IF l \in {<<"a", "c", "c", "o", "u", "n", "t">>, <<"a", "c", "c", "o", "u", "n", "t", "_", "i", "d">>} THEN acct_id
       ELSE IF l \in {<<"c", "o", "n", "t", "r", "a", "c", "t">>, <<"c", "o", "n", "t", "r", "a", "c", "t", "_", "i", "d">>} THEN ctrt_id
       ELSE IF l = <<"v", "e", "r", "i", "f", "y", "_", "s", "s", "l">> THEN "True"
       ELSE ""

\* C12: once call_hydroqc_once has built its keyword arguments, a declared
\* parameter is supplied exactly when its lower-cased name is an identifier
\* role with a configured value or is verify_ssl, with that value (True for
\* verify_ssl) under the parameter's own name; nothing else is supplied, an
\* accessor without recognized parameters gets no argument, and the
\* accessor is invoked once with these arguments.
C12_SuppliesExactlyRecognizedParameters ==
    c_pc \in {"invoke", "asyncio_run", "thread", "joined", "done"} /\ accessor.exists =>
        /\ \A i \in 1..Len(accessor.params) :
              LET n == accessor.params[i].name
              IN IF ExpectedArgument(n) # ""
                 THEN \E j \in 1..Len(kwargs) :
                        kwargs[j] = [k |-> n, v |-> ExpectedArgument(n)]
                 ELSE ~Supplied(kwargs, n)
        /\ \A j \in 1..Len(kwargs) :
              /\ \E i \in 1..Len(accessor.params) : accessor.params[i].name = kwargs[j].k
              /\ \A j2 \in 1..Len(kwargs) : kwargs[j2].k = kwargs[j].k => j2 = j
        /\ ((\A i \in 1..Len(accessor.params) :
                ExpectedArgument(accessor.params[i].name) = "") => kwargs = <<>>)
        /\ (c_pc = "invoke" => invocations = 0)
        /\ (c_pc # "invoke" => invocations = 1)

\* C12 witness: an accessor declaring Customer (a recognized role under
\* another case) was called with the configured customer identifier, and
\* one declaring customer_id and force was called with customer_id only.
C12_Witness ==
    /\ c_pc = "done"
    /\ c_outcome = Returned
    /\ cust_id # ""
    /\ \/ /\ accessor.params = <<Param(<<"C", "u", "s", "t", "o", "m", "e", "r">>, FALSE)>>
          /\ kwargs = <<[k |-> <<"C", "u", "s", "t", "o", "m", "e", "r">>, v |-> cust_id]>>
       \/ /\ Len(accessor.params) = 2
          /\ accessor.params[2].name = <<"f", "o", "r", "c", "e">>
          /\ kwargs = <<[k |-> <<"c", "u", "s", "t", "o", "m", "e", "r", "_", "i", "d">>, v |-> cust_id]>>

(***************************************************************************)
(* Claims about get_hydroqc_session (under SpecSession).                   *)
(***************************************************************************)
PrimarySteps == {"p_import", "p_ctor3", "p_ctor2", "p_login"}
SecondarySteps == {"s_import", "s_ctor2", "s_ctor0", "s_login"}

\* The steps of the trace that made their surface fail: a raised exception
\* other than the TypeError of the surface's first construction attempt.
FailureAt(i) ==
    /\ s_trace[i].exc # NoExc
    /\ ~(s_trace[i].step \in {"p_ctor3", "s_ctor2"} /\ s_trace[i].exc.type = "TypeError")

\* C7: an error is raised only when both surfaces failed; the secondary
\* surface is attempted only after the primary one failed (and the primary
\* one is never resumed); the one error raised names both underlying
\* causes; and a TypeError on the first construction attempt of a surface
\* leads to the reduced-argument attempt, not to the failure of the surface.
C7_ErrorOnlyAfterBothSurfacesFailed ==
    /\ s_outcome.status = "raised" =>
          /\ \E i, j \in 1..Len(s_trace) :
                /\ i < j
                /\ s_trace[i].step \in PrimarySteps /\ FailureAt(i)
                /\ s_trace[j].step \in SecondarySteps /\ FailureAt(j)
                /\ s_outcome.error.type = "RuntimeError"
                /\ s_outcome.error.names = <<s_trace[i].exc, s_trace[j].exc>>
    /\ \A j \in 1..Len(s_trace) :
          s_trace[j].step \in SecondarySteps =>
             /\ \E i \in 1..(j - 1) : s_trace[i].step \in PrimarySteps /\ FailureAt(i)
             /\ \A l \in j..Len(s_trace) : s_trace[l].step \in SecondarySteps
    /\ \A i \in 1..Len(s_trace) :
          /\ s_trace[i] = Step("p_ctor3", Exc("TypeError", "p_ctor3")) =>
                /\ e_webuser = NoExc \/ i < Len(s_trace)
                /\ IF i < Len(s_trace) THEN s_trace[i + 1].step = "p_ctor2"
                   ELSE s_pc = "p_ctor2"
          /\ s_trace[i] = Step("s_ctor2", Exc("TypeError", "s_ctor2")) =>
                /\ e_client = NoExc \/ i < Len(s_trace)
                /\ IF i < Len(s_trace) THEN s_trace[i + 1].step = "s_ctor0"
                   ELSE s_pc = "s_ctor0"
    /\ s_outcome.status = "returned" =>
          (session.surface = "HydroClient" <=> e_webuser # NoExc)

\* C7 witness: the error was raised after a TypeError on WebUser's first
\* construction, a failure of its reduced construction, a TypeError on
\* HydroClient's first construction and a failure of its login.
C7_Witness ==
    /\ s_outcome.status = "raised"
    /\ Len(s_trace) = 6
    /\ s_trace[2] = Step("p_ctor3", Exc("TypeError", "p_ctor3"))
    /\ s_trace[3].step = "p_ctor2" /\ s_trace[3].exc # NoExc
    /\ s_trace[5] = Step("s_ctor2", Exc("TypeError", "s_ctor2"))
    /\ s_trace[6].step = "s_ctor0" /\ s_trace[6].exc # NoExc
    /\ s_outcome.error.names = <<s_trace[3].exc, s_trace[6].exc>>

\* C13: every session object returned by get_hydroqc_session has had its
\* login operation performed before the return, on the WebUser and on the
\* HydroClient surface, whichever construction succeeded.
C13_ReturnedSessionLoggedIn ==
    s_outcome.status = "returned" =>
        /\ session.surface \in {"WebUser", "HydroClient"}
        /\ session.login_called
        /\ \E i \in 1..Len(s_trace) :
              s_trace[i] = Step(IF session.surface = "WebUser" THEN "p_login" ELSE "s_login",
                                NoExc)


(***************************************************************************)
(* Claims about normalize_usage_df (under SpecNormalize).                  *)
(***************************************************************************)
\* C9: normalize_usage_df applied to its own output, with the same
\* granularity, returns a table with the same columns and values.
C9_NormalizeIdempotent ==
    n_pc = "twice" => n_twice = n_once

\* C9 witness: a table with two candidates of the time axis, which the
\* first application renamed and coerced, has been normalized twice.
C9_Witness ==
    /\ n_pc = "twice"
    /\ n_granularity = "Monthly"
    /\ Len(n_df.cols) = 2
    /\ n_df.cols[1].name = <<"p", "e", "r", "i", "o", "d", "e">> /\ n_df.cols[2].name = <<"P", "e", "r", "i", "o", "d">>
    /\ n_once.cols[1].name = <<"m", "o", "n", "t", "h">> /\ n_once.cols[2].name = <<"p", "e", "r", "i", "o", "d">>
    /\ n_once.cols[1].cells # n_df.cols[1].cells

(***************************************************************************)
(* Claims about the usage RUN block (under SpecRun).                       *)
(***************************************************************************)
\* C10: a run with granularity Daily and a start date later than the end
\* date is rejected and halted before any network call: it never reaches
\* the login or a fetch, and it makes no call.
C10_InvalidDailyRangeMakesNoCall ==
    r_pc \in {"validate", "login", "fetch", "stopped", "done"}
    /\ u_granularity = "Daily" /\ start_date > end_date =>
        /\ r_pc \in {"validate", "stopped"}
        /\ r_calls = <<>>
        /\ (r_pc = "stopped" => r_msgs = <<"Start date must be before end date.">>)

\* C10 witness: such a run has been stopped, with no client cached yet.
C10_Witness ==
    /\ r_pc = "stopped"
    /\ u_granularity = "Daily" /\ start_date > end_date
    /\ ~client_cached
    /\ r_msgs = <<"Start date must be before end date.">>

(***************************************************************************)
(* Claims about the billing RUN block (under SpecBillingRun).              *)
(***************************************************************************)
OutcomeOf(i) == call_hydroqc_once(hq_session[i], cust_id, acct_id, ctrt_id, loop_running)

\* The accessor is absent, or its call failed with an Exception.
AbsentOrFailed(i) == OutcomeOf(i).status = "raised" /\ IsException(OutcomeOf(i).error)

\* The call was ended by a signal that is no Exception (cancellation).
Cancelled(i) == OutcomeOf(i).status = "raised" /\ ~IsException(OutcomeOf(i).error)

====
